---------------------------- MODULE Spec2Model ----------------------------
(***************************************************************************)
(* A model of the clearlinux-cli setup wizard (main.go).                   *)
(*                                                                         *)
(* A Go string is a sequence of one-character strings, so that the         *)
(* program's string operations (strings.Split, strings.TrimSpace,          *)
(* strings.TrimPrefix, fmt.Sprintf) are computed as the code computes      *)
(* them.  A multi-byte code point (an emoji of a label) and an ANSI style  *)
(* sequence is one element; none of them holds a space byte.               *)
(***************************************************************************)
EXTENDS Integers, Sequences, FiniteSets, TLC

VARIABLES
    setup,          \* var setup DevSetup: setup.Language.{Type,Version,Editors,CurrentVer,Path}
    accessible,     \* accessible, parsed from the ACCESSIBLE environment variable
    err,            \* main's err: what the last form's Run returned
    pc,             \* where main is
    pending,        \* callbacks bound to &setup.Language.Type that are due
    probe,          \* the TitleFunc's ver, path, err of its last getLanguageVersion call
    noteTitle,      \* what the note's TitleFunc last returned
    noteDescription,\* what the note's DescriptionFunc last returned
    versionOptions, \* what the version Select's OptionsFunc last returned
    editorOptions,  \* what the editor MultiSelect's OptionsFunc last returned
    processes,      \* environment: the child processes run so far
    stdout,         \* what main printed
    exitCode,       \* the process's exit code, -1 while it runs
    selections,     \* how often the language selection changed
    reselected,     \* history: the language selection changed after a version was set
    input,          \* the argument of a function applied on its own
    result          \* what the function applied on its own returned

vars == << setup, accessible, err, pc, pending, probe, noteTitle, noteDescription,
           versionOptions, editorOptions, processes, stdout, exitCode,
           selections, reselected, input, result >>

-----------------------------------------------------------------------------
(* Bounds *)

\* How often the user may change the language selection in one session.
MaxSelections == 2

\* The longest command output the functions are applied to on their own.
MaxLen == 4

-----------------------------------------------------------------------------
(* Go strings *)

\* The empty string.
Empty == << >>

\* unicode.IsSpace, as far as the outputs of the model go.
WhiteSpace == {" ", "\t", "\n", "\r", "\f"}

\* The index of the first element of s that is in set cs, 0 if there is none.
IndexAny(s, cs) ==
    IF \E i \in 1..Len(s) : s[i] \in cs
    THEN CHOOSE i \in 1..Len(s) : s[i] \in cs /\ \A j \in 1..(i-1) : s[j] \notin cs
    ELSE 0

RECURSIVE Split(_, _)
\* strings.Split(s, sep) for a one-character sep: the pieces between the
\* separators, empty pieces included; <<s>> when s holds no separator.
Split(s, sep) ==
    LET i == IndexAny(s, {sep})
    IN  IF i = 0 THEN << s >>
        ELSE << SubSeq(s, 1, i - 1) >> \o Split(SubSeq(s, i + 1, Len(s)), sep)

RECURSIVE TrimLeft(_)
TrimLeft(s) ==
    IF s # Empty /\ Head(s) \in WhiteSpace THEN TrimLeft(Tail(s)) ELSE s

RECURSIVE TrimRight(_)
TrimRight(s) ==
    IF s # Empty /\ s[Len(s)] \in WhiteSpace THEN TrimRight(SubSeq(s, 1, Len(s) - 1)) ELSE s

\* strings.TrimSpace
TrimSpace(s) == TrimRight(TrimLeft(s))

\* strings.HasPrefix
HasPrefix(s, p) == Len(s) >= Len(p) /\ SubSeq(s, 1, Len(p)) = p

\* strings.TrimPrefix
TrimPrefix(s, p) == IF HasPrefix(s, p) THEN SubSeq(s, Len(p) + 1, Len(s)) ELSE s

RECURSIVE Concat(_)
\* The concatenation of a sequence of strings (fmt.Sprintf's pieces).
Concat(ss) == IF ss = << >> THEN Empty ELSE Head(ss) \o Concat(Tail(ss))

-----------------------------------------------------------------------------
(* The language names and the Select's option labels *)

Python     == <<"P","y","t","h","o","n">>
JavaScript == <<"J","a","v","a","S","c","r","i","p","t">>
Go         == <<"G","o">>
Rust       == <<"R","u","s","t">>
Java       == <<"J","a","v","a">>

\* huh.NewOptions(...) of the language Select: label and value are the same string.
LanguageOptions ==
    << <<"P","y","t","h","o","n"," ","U+1F40D">>,
       <<"J","a","v","a","S","c","r","i","p","t"," ","U+1F4AB">>,
       <<"G","o"," ","U+1F680">>,
       <<"R","u","s","t"," ","U+1F980">>,
       <<"J","a","v","a"," ","U+2615">> >>

Range(s) == { s[i] : i \in 1..Len(s) }

-----------------------------------------------------------------------------
(* getLanguageVersion *)

\* The command of each language: exec.Command(name, arg).
Command(language) ==
    CASE language = Python     -> [name |-> <<"p","y","t","h","o","n","3">>, arg |-> <<"-","-","v","e","r","s","i","o","n">>]
      [] language = JavaScript -> [name |-> <<"n","o","d","e">>,    arg |-> <<"-","-","v","e","r","s","i","o","n">>]
      [] language = Go         -> [name |-> <<"g","o">>,      arg |-> <<"v","e","r","s","i","o","n">>]
      [] language = Rust       -> [name |-> <<"r","u","s","t","c">>,   arg |-> <<"-","-","v","e","r","s","i","o","n">>]
      [] language = Java       -> [name |-> <<"j","a","v","a">>,    arg |-> <<"-","-","v","e","r","s","i","o","n">>]
      [] OTHER                 -> [name |-> Empty,       arg |-> Empty]

\* Where the search path resolves an executable it holds.
LookPath(name) == <<"/","u","s","r","/","b","i","n","/">> \o name

\* An error is its message; NoError is Go's nil, which is no message.
NoError == << "nil" >>

\* The errors getLanguageVersion returns: its two own, and cmd.Run()'s.
ErrUnsupported(language) == <<"u","n","s","u","p","p","o","r","t","e","d"," ","l","a","n","g","u","a","g","e",":"," ">> \o language
ErrNotFound == <<"n","o","t"," ","f","o","u","n","d"," ","i","n"," ","P","A","T","H">>
ErrExit     == <<"e","x","i","t"," ","s","t","a","t","u","s"," ","1">>

\* The normalisation of a command's captured output, per language.
ProcessVersion(language, out) ==
    LET version == TrimSpace(out)
        parts   == Split(version, " ")
    IN  CASE language = Python     -> IF Len(parts) >= 2 THEN parts[2] ELSE version
          [] language = JavaScript -> TrimPrefix(version, <<"v">>)
          [] OTHER                 -> version

\* A variant that runs the command before it resolves the executable.
getLanguageVersionRunFirst(language, env) ==
    LET lang == Split(language, " ")[1]
        cmd  == Command(lang)
        proc == [path |-> LookPath(cmd.name), args |-> << cmd.name, cmd.arg >>]
    IN  IF lang \notin {Python, JavaScript, Go, Rust, Java}
        THEN [version |-> Empty, path |-> Empty, err |-> ErrUnsupported(lang), spawned |-> << >>]
        ELSE IF ~env.found
        THEN [version |-> Empty, path |-> Empty, err |-> ErrNotFound, spawned |-> << proc >>]
        ELSE IF ~env.ok
        THEN [version |-> Empty, path |-> Empty, err |-> ErrExit, spawned |-> << proc >>]
        ELSE [version |-> ProcessVersion(lang, env.out), path |-> LookPath(cmd.name),
              err |-> NoError, spawned |-> << proc >>]

\* getLanguageVersion(language), where `env` is what the machine answers
\* during the call: [found |-> the search path resolves the executable,
\* ok |-> the child process, if run, exits with status 0, out |-> its
\* captured standard output].  `spawned` holds the child process
\* cmd.Run() started, if it was called.
getLanguageVersion(language, env) ==
    LET lang == Split(language, " ")[1]
        cmd  == Command(lang)
        proc == [path |-> LookPath(cmd.name), args |-> << cmd.name, cmd.arg >>]
    IN  IF lang \notin {Python, JavaScript, Go, Rust, Java}
        THEN [version |-> Empty, path |-> Empty, err |-> ErrUnsupported(lang), spawned |-> << >>]
        ELSE IF ~env.found
        THEN [version |-> Empty, path |-> Empty, err |-> ErrNotFound, spawned |-> << >>]
        ELSE IF ~env.ok
        THEN [version |-> Empty, path |-> Empty, err |-> ErrExit, spawned |-> << proc >>]
        ELSE [version |-> ProcessVersion(lang, env.out), path |-> LookPath(cmd.name),
              err |-> NoError, spawned |-> << proc >>]

-----------------------------------------------------------------------------
(* getAvailableVersions *)

versions(language) ==
    CASE language = Python ->
            << <<"3",".","1","2",".","1"," ","(","L","a","t","e","s","t",")">>,
               <<"3",".","1","1",".","7"," ","(","L","T","S",")">>,
               <<"3",".","1","0",".","1","3">>,
               <<"3",".","9",".","1","8">> >>
      [] language = JavaScript ->
            << <<"2","0",".","1","1",".","0"," ","(","L","a","t","e","s","t",")">>,
               <<"1","8",".","1","9",".","0"," ","(","L","T","S",")">>,
               <<"1","6",".","2","0",".","2">>,
               <<"1","4",".","2","1",".","3">> >>
      [] language = Go ->
            << <<"1",".","2","2",".","0"," ","(","L","a","t","e","s","t",")">>,
               <<"1",".","2","1",".","6"," ","(","L","T","S",")">>,
               <<"1",".","2","0",".","1","2">>,
               <<"1",".","1","9",".","1","3">> >>
      [] language = Rust ->
            << <<"1",".","7","5",".","0"," ","(","L","a","t","e","s","t",")">>,
               <<"1",".","7","4",".","1">>,
               <<"1",".","7","3",".","0">> >>
      [] language = Java ->
            << <<"2","1",".","0",".","2"," ","(","L","a","t","e","s","t",")">>,
               <<"1","7",".","0",".","1","0"," ","(","L","T","S",")">>,
               <<"1","1",".","0",".","2","2">> >>
      [] OTHER -> << >>

\* A variant that looks the label up as it is, suffix included.
getAvailableVersionsWholeLabel(language) == versions(language)

getAvailableVersions(language) == versions(Split(language, " ")[1])

-----------------------------------------------------------------------------
(* getLanguageEditors *)

\* huh.NewOption(key, value), .Selected(true) for the first.
baseEditors ==
    << [key |-> <<"V","S"," ","C","o","d","e"," ","U+1F4BB">>,      value |-> <<"V","S"," ","C","o","d","e">>,      selected |-> TRUE],
       [key |-> <<"N","e","o","v","i","m"," ","U+1F52E">>,       value |-> <<"N","e","o","v","i","m">>,       selected |-> FALSE],
       [key |-> <<"S","u","b","l","i","m","e"," ","T","e","x","t"," ","U+2728">>, value |-> <<"S","u","b","l","i","m","e"," ","T","e","x","t">>, selected |-> FALSE] >>

\* The switch on the language: what is appended to the base editors.
SpecializedEditors(lang) ==
    CASE lang = Python ->
            << [key |-> <<"P","y","C","h","a","r","m"," ","U+1F40D">>, value |-> <<"P","y","C","h","a","r","m">>, selected |-> FALSE] >>
      [] lang = Go ->
            << [key |-> <<"G","o","L","a","n","d"," ","U+1F3AF">>, value |-> <<"G","o","L","a","n","d">>, selected |-> FALSE] >>
      [] lang = JavaScript ->
            << [key |-> <<"W","e","b","S","t","o","r","m"," ","U+1F310">>, value |-> <<"W","e","b","S","t","o","r","m">>, selected |-> FALSE] >>
      [] lang = Java ->
            << [key |-> <<"I","n","t","e","l","l","i","J"," ","I","D","E","A"," ","U+2615">>, value |-> <<"I","n","t","e","l","l","i","J"," ","I","D","E","A">>, selected |-> FALSE] >>
      [] OTHER -> << >>

\* A variant that matches the label as it is, suffix included.
getLanguageEditorsWholeLabel(language) == baseEditors \o SpecializedEditors(language)

getLanguageEditors(language) ==
    LET lang == Split(language, " ")[1]
    IN  baseEditors \o SpecializedEditors(lang)

-----------------------------------------------------------------------------
(* The environment of a probe *)

\* What the version command of an executable may print on standard output.
Stdout(name) ==
    CASE name = <<"p","y","t","h","o","n","3">> -> { <<"P","y","t","h","o","n"," ","3",".","1","1",".","2","\n">>, <<"P","y","t","h","o","n","\n">>, Empty }
      [] name = <<"n","o","d","e">>    -> { <<"v","2","0",".","1","1",".","0","\n">> }
      [] name = <<"g","o">>      -> { <<"g","o"," ","v","e","r","s","i","o","n"," ","g","o","1",".","2","2",".","0"," ","l","i","n","u","x","/","a","m","d","6","4","\n">> }
      [] name = <<"r","u","s","t","c">>   -> { <<"r","u","s","t","c"," ","1",".","7","5",".","0","\n">> }
      [] name = <<"j","a","v","a">>    -> { <<"o","p","e","n","j","d","k"," ","2","1",".","0",".","2"," ","2","0","2","4","-","0","1","-","1","6","\n","O","p","e","n","J","D","K"," ","6","4","-","B","i","t"," ","S","e","r","v","e","r"," ","V","M","\n">> }
      [] OTHER              -> { }

\* What the machine may answer during a probe of `language`: the executable
\* is not on the search path, or it is and the child process fails, or it
\* is and the child process prints one of its outputs.  A language with no
\* command has the first answer only, which is never read.
Outcomes(language) ==
    LET name == Command(Split(language, " ")[1]).name
    IN  { [found |-> FALSE, ok |-> FALSE, out |-> Empty] }
            \cup { [found |-> TRUE, ok |-> FALSE, out |-> Empty] : o \in Stdout(name) }
            \cup { [found |-> TRUE, ok |-> TRUE, out |-> o] : o \in Stdout(name) }

-----------------------------------------------------------------------------
(* Styles and formatting *)

highlight   == "ESC[1;38;5;212m"
subtle      == "ESC[38;5;241m"
headerStyle == "ESC[1;38;5;86m"
errorStyle  == "ESC[1;38;5;161m"

\* style.Render(s): the string between the style's sequence and the reset.
Render(style, s) == << style >> \o s \o << "ESC[0m" >>

RECURSIVE EnglishJoin(_)
\* xstrings.EnglishJoin(words, true): "a", "a and b", "a, b, and c".
EnglishJoin(words) ==
    CASE Len(words) = 0 -> Empty
      [] Len(words) = 1 -> words[1]
      [] Len(words) = 2 -> words[1] \o <<" ","a","n","d"," ">> \o words[2]
      [] Len(words) = 3 -> words[1] \o <<","," ">> \o words[2] \o <<","," ","a","n","d"," ">> \o words[3]
      [] OTHER          -> words[1] \o <<","," ">> \o EnglishJoin(Tail(words))

-----------------------------------------------------------------------------
(* The callbacks of the first form, bound to &setup.Language.Type *)

NoInstallationTitle == Render(subtle, <<"N","o"," ","e","x","i","s","t","i","n","g"," ","i","n","s","t","a","l","l","a","t","i","o","n"," ","f","o","u","n","d">>)

FoundTitle(type) == Render(highlight, Concat(<< <<"F","o","u","n","d"," ">>, type, <<" ","i","n","s","t","a","l","l","a","t","i","o","n",":">> >>))

\* A variant that clears the session's probe fields when the probe fails.
TitleFuncClearing(s, r) ==
    IF r.err = NoError
    THEN [setup |-> [s EXCEPT !.Language.CurrentVer = r.version,
                              !.Language.Path = r.path],
          title |-> FoundTitle(s.Language.Type)]
    ELSE [setup |-> [s EXCEPT !.Language.CurrentVer = Empty,
                              !.Language.Path = Empty],
          title |-> NoInstallationTitle]

\* A variant that stores the version and leaves the path.
TitleFuncVersionOnly(s, r) ==
    IF r.err = NoError
    THEN [setup |-> [s EXCEPT !.Language.CurrentVer = r.version],
          title |-> FoundTitle(s.Language.Type)]
    ELSE [setup |-> s, title |-> NoInstallationTitle]

\* A variant that reports an installation whenever a command was found.
TitleFuncFoundIfRan(s, r) ==
    IF r.err = NoError
    THEN [setup |-> [s EXCEPT !.Language.CurrentVer = r.version,
                              !.Language.Path = r.path],
          title |-> FoundTitle(s.Language.Type)]
    ELSE [setup |-> s,
          title |-> IF r.spawned # << >> THEN FoundTitle(s.Language.Type)
                    ELSE NoInstallationTitle]

\* The note's TitleFunc, given what getLanguageVersion(s.Language.Type)
\* returned: the session after it, and the title.
TitleFunc(s, r) ==
    IF r.err = NoError
    THEN [setup |-> [s EXCEPT !.Language.CurrentVer = r.version,
                              !.Language.Path = r.path],
          title |-> FoundTitle(s.Language.Type)]
    ELSE [setup |-> s, title |-> NoInstallationTitle]

\* The note's DescriptionFunc.
DescriptionFunc(s) ==
    IF s.Language.CurrentVer # Empty
    THEN Concat(<< <<"V","e","r","s","i","o","n",":"," ">>, Render(highlight, s.Language.CurrentVer),
                   <<"\n","P","a","t","h",":"," ">>, Render(subtle, s.Language.Path) >>)
    ELSE Render(subtle, <<"Y","o","u"," ","c","a","n"," ","p","r","o","c","e","e","d"," ","w","i","t","h"," ","a"," ","f","r","e","s","h"," ","i","n","s","t","a","l","l","a","t","i","o","n">>)

\* The version Select's OptionsFunc: huh.NewOption(version, version) of each.
VersionOptionsFunc(s) ==
    LET vs == getAvailableVersions(s.Language.Type)
    IN  [i \in 1..Len(vs) |-> [key |-> vs[i], value |-> vs[i], selected |-> FALSE]]

\* The editor MultiSelect's OptionsFunc.
EditorOptionsFunc(s) == getLanguageEditors(s.Language.Type)

\* The three callbacks of the first form, in the order of its fields.
Bound == << "TitleFunc", "DescriptionFunc", "OptionsFunc" >>

\* A variant with no binding: the options are evaluated once.
RebindOnce(old, s) == IF old = << >> THEN VersionOptionsFunc(s) ELSE old

\* What the version Select shows after its binding changed: the options of
\* its OptionsFunc, evaluated anew.
Rebind(old, s) == VersionOptionsFunc(s)

Values(options) == { options[i].value : i \in 1..Len(options) }

-----------------------------------------------------------------------------
(* The summary *)

\* The text main composes in sb.
Summary(s) ==
    Concat(<< Render(headerStyle, <<"D","E","V"," ","E","N","V","I","R","O","N","M","E","N","T"," ","S","E","T","U","P"," ","C","O","M","P","L","E","T","E">>),
              <<"\n","\n","L","a","n","g","u","a","g","e",":"," ">>, Render(highlight, s.Language.Type),
              <<"\n","V","e","r","s","i","o","n",":"," ">>, Render(highlight, s.Language.Version),
              <<"\n","E","d","i","t","o","r","s",":"," ">>, Render(highlight, EnglishJoin(s.Language.Editors)) >>)
      \o (IF s.Language.CurrentVer # Empty
          THEN <<"\n","\n","P","r","e","v","i","o","u","s"," ","v","e","r","s","i","o","n",":"," ">> \o Render(subtle, s.Language.CurrentVer)
          ELSE Empty)

\* A variant that prints the error and goes on.
FormErrorNoExit(e) ==
    [stdout   |-> Append(stdout, [kind |-> "line",
                                   text |-> Render(errorStyle, <<"E","r","r","o","r",":"," ">> \o e)]),
     exitCode |-> -1,
     pc       |-> "spinner"]

\* What main does when a form's Run returns the error e: print it, os.Exit(1).
FormError(e) ==
    [stdout   |-> Append(stdout, [kind |-> "line",
                                   text |-> Render(errorStyle, <<"E","r","r","o","r",":"," ">> \o e)]),
     exitCode |-> 1,
     pc       |-> "exited"]

\* The errors a form's Run may return.
FormErrors == { <<"u","s","e","r"," ","a","b","o","r","t","e","d">> }

-----------------------------------------------------------------------------
(* The session *)

Init ==
    /\ setup = [Language |-> [Type |-> Empty, Version |-> Empty, Editors |-> << >>,
                              CurrentVer |-> Empty, Path |-> Empty],
                CreateRepo |-> FALSE]
    /\ accessible \in BOOLEAN
    /\ err = NoError
    /\ pc = "main"
    /\ pending = << >>
    /\ probe = [ver |-> Empty, path |-> Empty, err |-> NoError]
    /\ noteTitle = Empty
    /\ noteDescription = Empty
    /\ versionOptions = << >>
    /\ editorOptions = << >>
    /\ processes = << >>
    /\ stdout = << >>
    /\ exitCode = -1
    /\ selections = 0
    /\ reselected = FALSE
    /\ input = Empty
    /\ result = "none"

InLanguageForm == pc \in {"language", "version"}

\* languageForm.Run() starts: the language Select has the focus, and the
\* bound callbacks are due for the first time.
RunLanguageForm ==
    /\ pc = "main"
    /\ pc' = "language"
    /\ pending' = Bound
    /\ UNCHANGED << setup, accessible, err, probe, noteTitle, noteDescription,
                    versionOptions, editorOptions, processes, stdout, exitCode,
                    selections, reselected, input, result >>

\* The user moves the language Select to another option: it writes the
\* option's value through Value(&setup.Language.Type), and the callbacks
\* bound to it are due again.
HoverLanguage(l) ==
    /\ pc = "language"
    /\ pending = << >>
    /\ selections < MaxSelections
    /\ l # setup.Language.Type
    /\ setup' = [setup EXCEPT !.Language.Type = l]
    /\ pending' = Bound
    /\ selections' = selections + 1
    /\ reselected' = (reselected \/ setup.Language.Version # Empty)
    /\ UNCHANGED << accessible, err, pc, probe, noteTitle, noteDescription,
                    versionOptions, editorOptions, processes, stdout, exitCode,
                    input, result >>

\* The form evaluates the note's TitleFunc.
EvalTitleFunc(env) ==
    /\ InLanguageForm
    /\ pending # << >> /\ Head(pending) = "TitleFunc"
    /\ LET r == getLanguageVersion(setup.Language.Type, env)
           t == TitleFunc(setup, r)
       IN  /\ probe' = [ver |-> r.version, path |-> r.path, err |-> r.err]
           /\ processes' = processes \o r.spawned
           /\ setup' = t.setup
           /\ noteTitle' = t.title
    /\ pending' = Tail(pending)
    /\ UNCHANGED << accessible, err, pc, noteDescription, versionOptions,
                    editorOptions, stdout, exitCode, selections, reselected, input,
                    result >>

\* The form evaluates the note's DescriptionFunc.
EvalDescriptionFunc ==
    /\ InLanguageForm
    /\ pending # << >> /\ Head(pending) = "DescriptionFunc"
    /\ noteDescription' = DescriptionFunc(setup)
    /\ pending' = Tail(pending)
    /\ UNCHANGED << setup, accessible, err, pc, probe, noteTitle, versionOptions,
                    editorOptions, processes, stdout, exitCode, selections,
                    reselected, input, result >>

\* The form evaluates the version Select's OptionsFunc.
EvalOptionsFunc ==
    /\ InLanguageForm
    /\ pending # << >> /\ Head(pending) = "OptionsFunc"
    /\ versionOptions' = Rebind(versionOptions, setup)
    /\ pending' = Tail(pending)
    /\ UNCHANGED << setup, accessible, err, pc, probe, noteTitle, noteDescription,
                    editorOptions, processes, stdout, exitCode, selections,
                    reselected, input, result >>

\* The user confirms the language: the focus moves to the version Select
\* (the note takes no input).
SubmitLanguage ==
    /\ pc = "language"
    /\ pending = << >>
    /\ setup.Language.Type # Empty
    /\ pc' = "version"
    /\ UNCHANGED << setup, accessible, err, pending, probe, noteTitle,
                    noteDescription, versionOptions, editorOptions, processes,
                    stdout, exitCode, selections, reselected, input, result >>

\* The user goes back from the version Select to the language Select.
BackToLanguage ==
    /\ pc = "version"
    /\ pc' = "language"
    /\ UNCHANGED << setup, accessible, err, pending, probe, noteTitle,
                    noteDescription, versionOptions, editorOptions, processes,
                    stdout, exitCode, selections, reselected, input, result >>

\* The user moves the version Select to another of its options: it writes
\* the option's value through Value(&setup.Language.Version).
HoverVersion(v) ==
    /\ pc = "version"
    /\ v \in Values(versionOptions)
    /\ v # setup.Language.Version
    /\ setup' = [setup EXCEPT !.Language.Version = v]
    /\ UNCHANGED << accessible, err, pc, pending, probe, noteTitle,
                    noteDescription, versionOptions, editorOptions, processes,
                    stdout, exitCode, selections, reselected, input, result >>

\* The user confirms the version Select, the last field: it writes the
\* option under its cursor, and languageForm.Run() returns nil.
SubmitVersion(v) ==
    /\ pc = "version"
    /\ v \in Values(versionOptions)
    /\ setup' = [setup EXCEPT !.Language.Version = v]
    /\ err' = NoError
    /\ pc' = "languageFormDone"
    /\ UNCHANGED << accessible, pending, probe, noteTitle, noteDescription,
                    versionOptions, editorOptions, processes, stdout, exitCode,
                    selections, reselected, input, result >>

\* languageForm.Run() returns an error: main prints it and exits with 1.
AbortLanguageForm(e) ==
    /\ InLanguageForm
    /\ err' = e
    /\ stdout' = FormError(e).stdout
    /\ exitCode' = FormError(e).exitCode
    /\ pc' = FormError(e).pc
    /\ UNCHANGED << setup, accessible, pending, probe, noteTitle, noteDescription,
                    versionOptions, editorOptions, processes, selections,
                    reselected, input, result >>

\* The guard of the second form; editorForm.Run() starts when it holds, and
\* the MultiSelect's OptionsFunc is evaluated.
EditorFormGuard ==
    /\ pc = "languageFormDone"
    /\ IF setup.Language.Type # Empty /\ setup.Language.Version # Empty
       THEN /\ pc' = "editor"
            /\ editorOptions' = EditorOptionsFunc(setup)
       ELSE /\ pc' = "spinner"
            /\ UNCHANGED editorOptions
    /\ UNCHANGED << setup, accessible, err, pending, probe, noteTitle,
                    noteDescription, versionOptions, processes, stdout, exitCode,
                    selections, reselected, input, result >>

\* The user confirms the MultiSelect with the options at `chosen` selected:
\* their values, in the order of the options, are written through
\* Value(&setup.Language.Editors), and editorForm.Run() returns nil.
SubmitEditors(chosen) ==
    /\ pc = "editor"
    /\ LET Pick(i) == IF i \in chosen THEN << editorOptions[i].value >> ELSE << >>
       IN  setup' = [setup EXCEPT !.Language.Editors =
                        Concat([i \in 1..Len(editorOptions) |-> Pick(i)])]
    /\ err' = NoError
    /\ pc' = "spinner"
    /\ UNCHANGED << accessible, pending, probe, noteTitle, noteDescription,
                    versionOptions, editorOptions, processes, stdout, exitCode,
                    selections, reselected, input, result >>

\* editorForm.Run() returns an error: main prints it and exits with 1.
AbortEditorForm(e) ==
    /\ pc = "editor"
    /\ err' = e
    /\ stdout' = FormError(e).stdout
    /\ exitCode' = FormError(e).exitCode
    /\ pc' = FormError(e).pc
    /\ UNCHANGED << setup, accessible, pending, probe, noteTitle, noteDescription,
                    versionOptions, editorOptions, processes, selections,
                    reselected, input, result >>

\* The spinner runs setupEnvironment, which sleeps; its error is dropped.
Spinner ==
    /\ pc = "spinner"
    /\ pc' = "summary"
    /\ UNCHANGED << setup, accessible, err, pending, probe, noteTitle,
                    noteDescription, versionOptions, editorOptions, processes,
                    stdout, exitCode, selections, reselected, input, result >>

\* main prints the summary in its box and returns.  Writing to a
\* strings.Builder never fails, so the two early returns are never taken.
PrintSummary ==
    /\ pc = "summary"
    /\ stdout' = Append(stdout, [kind |-> "box", text |-> Summary(setup)])
    /\ exitCode' = 0
    /\ pc' = "done"
    /\ UNCHANGED << setup, accessible, err, pending, probe, noteTitle,
                    noteDescription, versionOptions, editorOptions, processes,
                    selections, reselected, input, result >>

Next ==
    \/ RunLanguageForm
    \/ \E l \in Range(LanguageOptions) : HoverLanguage(l)
    \/ \E env \in Outcomes(setup.Language.Type) : EvalTitleFunc(env)
    \/ EvalDescriptionFunc
    \/ EvalOptionsFunc
    \/ SubmitLanguage
    \/ BackToLanguage
    \/ \E v \in Values(versionOptions) : HoverVersion(v)
    \/ \E v \in Values(versionOptions) : SubmitVersion(v)
    \/ \E e \in FormErrors : AbortLanguageForm(e)
    \/ EditorFormGuard
    \/ \E chosen \in SUBSET (1..Len(editorOptions)) : SubmitEditors(chosen)
    \/ \E e \in FormErrors : AbortEditorForm(e)
    \/ Spinner
    \/ PrintSummary

Spec == Init /\ [][Next]_vars

-----------------------------------------------------------------------------
(* The functions applied on their own *)

\* The characters of the strings the functions are applied to: a letter,
\* a digit and the space.
Alphabet == {"v", "3", " "}

Strings(n) == UNION { [1..k -> Alphabet] : k \in 0..n }

\* The labels of the menu, the same without their suffix, and the standard
\* outputs of the probes.
Inputs ==
    Strings(MaxLen)
      \cup Range(LanguageOptions)
      \cup {Python, JavaScript, Go, Rust, Java}
      \cup UNION { Stdout(Command(l).name) : l \in {Python, JavaScript, Go, Rust, Java} }

NoResult == [fn |-> "none"]

InitFn ==
    /\ setup = [Language |-> [Type |-> Empty, Version |-> Empty, Editors |-> << >>,
                              CurrentVer |-> Empty, Path |-> Empty],
                CreateRepo |-> FALSE]
    /\ accessible = FALSE
    /\ err = NoError
    /\ pc = "fn"
    /\ pending = << >>
    /\ probe = [ver |-> Empty, path |-> Empty, err |-> NoError]
    /\ noteTitle = Empty
    /\ noteDescription = Empty
    /\ versionOptions = << >>
    /\ editorOptions = << >>
    /\ processes = << >>
    /\ stdout = << >>
    /\ exitCode = -1
    /\ selections = 0
    /\ reselected = FALSE
    /\ input \in Inputs
    /\ result = NoResult

\* getLanguageVersion(l) of a label of the menu, where the command prints
\* the input.
ApplyToOutput(l) ==
    /\ pc = "fn"
    /\ LET env == [found |-> TRUE, ok |-> TRUE, out |-> input]
       IN  result' = [fn |-> "getLanguageVersion", language |-> l, env |-> env,
                      value |-> getLanguageVersion(l, env)]
    /\ UNCHANGED << setup, accessible, err, pc, pending, probe, noteTitle,
                    noteDescription, versionOptions, editorOptions, processes,
                    stdout, exitCode, selections, reselected, input >>

\* getLanguageVersion(input), whatever the machine answers.
ApplyGetLanguageVersion(env) ==
    /\ pc = "fn"
    /\ result' = [fn |-> "getLanguageVersion", language |-> input, env |-> env,
                  value |-> getLanguageVersion(input, env)]
    /\ UNCHANGED << setup, accessible, err, pc, pending, probe, noteTitle,
                    noteDescription, versionOptions, editorOptions, processes,
                    stdout, exitCode, selections, reselected, input >>

\* getAvailableVersions(input)
ApplyGetAvailableVersions ==
    /\ pc = "fn"
    /\ result' = [fn |-> "getAvailableVersions", language |-> input,
                  value |-> getAvailableVersions(input)]
    /\ UNCHANGED << setup, accessible, err, pc, pending, probe, noteTitle,
                    noteDescription, versionOptions, editorOptions, processes,
                    stdout, exitCode, selections, reselected, input >>

\* getLanguageEditors(input)
ApplyGetLanguageEditors ==
    /\ pc = "fn"
    /\ result' = [fn |-> "getLanguageEditors", language |-> input,
                  value |-> getLanguageEditors(input)]
    /\ UNCHANGED << setup, accessible, err, pc, pending, probe, noteTitle,
                    noteDescription, versionOptions, editorOptions, processes,
                    stdout, exitCode, selections, reselected, input >>

NextFn ==
    \/ \E l \in Range(LanguageOptions) : ApplyToOutput(l)
    \/ \E env \in Outcomes(input) : ApplyGetLanguageVersion(env)
    \/ ApplyGetAvailableVersions
    \/ ApplyGetLanguageEditors

SpecFn == InitFn /\ [][NextFn]_vars

-----------------------------------------------------------------------------
(* What the properties speak of *)

Names == {Python, JavaScript, Go, Rust, Java}

\* x is the name, or the name, a space and a suffix.
IsLabel(x, name) == x = name \/ HasPrefix(x, name \o << " " >>)

Supported(x) == \E name \in Names : IsLabel(x, name)

RECURSIVE Fields(_)
\* The white-space separated tokens of s.
Fields(s) ==
    LET t == TrimLeft(s)
        i == IndexAny(t, WhiteSpace)
    IN  IF t = Empty THEN << >>
        ELSE IF i = 0 THEN << t >>
        ELSE << SubSeq(t, 1, i - 1) >> \o Fields(SubSeq(t, i + 1, Len(t)))

Digits == << "0", "1", "2", "3", "4", "5", "6", "7", "8", "9" >>

RECURSIVE ToNat(_)
\* The number a string of digits writes.
ToNat(ds) ==
    IF ds = Empty THEN 0
    ELSE 10 * ToNat(SubSeq(ds, 1, Len(ds) - 1))
            + (CHOOSE d \in 0..9 : Digits[d + 1] = ds[Len(ds)])

\* The version number of a label: "3.12.1 (Latest)" is <<3, 12, 1>>.
VersionNumber(label) ==
    LET parts == Split(Split(label, " ")[1], ".")
    IN  [i \in 1..Len(parts) |-> ToNat(parts[i])]

\* Version number a is more recent than b.
Newer(a, b) ==
    /\ Len(a) = Len(b)
    /\ \E i \in 1..Len(a) : a[i] > b[i] /\ \A j \in 1..(i - 1) : a[j] = b[j]

\* The step is an evaluation of the note's TitleFunc: a probe.
IsProbeStep ==
    /\ InLanguageForm
    /\ pending # << >> /\ Head(pending) = "TitleFunc"
    /\ pending' = Tail(pending)

Boxes == Cardinality({ i \in 1..Len(stdout) : stdout[i].kind = "box" })

HasPreviousVersionLine(text) ==
    \E i \in 1..Len(Split(text, "\n")) :
        HasPrefix(Split(text, "\n")[i], <<"P","r","e","v","i","o","u","s"," ","v","e","r","s","i","o","n",":"," ">>)

-----------------------------------------------------------------------------
(* The properties *)

\* C1: whatever selections preceded the final one, when the probe of the
\* finally selected language ends not-found, the session reaches the summary
\* with a version chosen, and the summary has no "Previous version" line.
C1_AbsentToolchainNoPreviousLine ==
    (pc = "done" /\ probe.err = ErrNotFound) =>
        /\ setup.Language.Version # Empty
        /\ Boxes = 1
        /\ ~HasPreviousVersionLine(stdout[Len(stdout)].text)

\* C2, as stated: once CurrentVer and Path are written, no later step of the
\* session changes them.
C2_NeverMutatedOnceWritten ==
    [][setup.Language.Path # Empty =>
          /\ setup'.Language.CurrentVer = setup.Language.CurrentVer
          /\ setup'.Language.Path = setup.Language.Path]_vars

\* C2, amended: CurrentVer and Path change only in a probe of the first form
\* that succeeds, which writes the probe's version and path; so no step after
\* the first form changes them.
C2_WrittenOnlyBySuccessfulProbe ==
    [][<< setup'.Language.CurrentVer, setup'.Language.Path >>
          # << setup.Language.CurrentVer, setup.Language.Path >> =>
          /\ IsProbeStep
          /\ probe'.err = NoError
          /\ setup'.Language.CurrentVer = probe'.ver
          /\ setup'.Language.Path = probe'.path]_vars

\* C2's case: a second successful probe has overwritten the first one's path.
C2_Witness ==
    /\ Len(processes) = 2
    /\ processes[1].path # processes[2].path
    /\ probe.err = NoError
    /\ setup.Language.Path = processes[2].path

\* C3: getLanguageVersion runs no child process when the executable is not
\* resolved (it fails with the not-found error) nor when the language is
\* unsupported; a child process is run only after the executable resolved.
C3_NoProcessUnlessResolved ==
    result.fn = "getLanguageVersion" =>
        /\ (Supported(result.language) /\ ~result.env.found) =>
              (result.value.err = ErrNotFound /\ result.value.spawned = << >>)
        /\ ~Supported(result.language) =>
              (/\ HasPrefix(result.value.err, <<"u","n","s","u","p","p","o","r","t","e","d"," ","l","a","n","g","u","a","g","e",":"," ">>)
               /\ result.value.spawned = << >>)
        /\ result.value.spawned # << >> =>
              (result.env.found /\ Len(result.value.spawned) = 1)

\* C3's case: the probe of a menu label whose executable is not resolved.
C3_Witness ==
    /\ result.fn = "getLanguageVersion"
    /\ result.language = LanguageOptions[3]
    /\ ~result.env.found
    /\ result.value.err = ErrNotFound

\* C4: a probe that fails, with whichever of the three errors, makes the note
\* say that no installation exists and leaves the session in the first form,
\* where the version prompt has its options; the process exits with 1 only
\* when a form returned an error.
C4_ProbeFailureNotFatal ==
    /\ [][(IsProbeStep /\ probe'.err # NoError) =>
            /\ \/ HasPrefix(probe'.err, <<"u","n","s","u","p","p","o","r","t","e","d"," ","l","a","n","g","u","a","g","e",":"," ">>)
               \/ probe'.err \in {ErrNotFound, ErrExit}
            /\ noteTitle' = NoInstallationTitle
            /\ pc' = pc
            /\ exitCode' = -1
            /\ err' = NoError]_vars
    /\ []((InLanguageForm /\ pending = << >> /\ probe.err # NoError
             /\ setup.Language.Type # Empty) => versionOptions # << >>)
    /\ [](exitCode = 1 => err \in FormErrors)

\* C4's case: the session is at the version prompt after a probe whose child
\* process failed.
C4_Witness ==
    /\ pc = "version"
    /\ probe.err = ErrExit
    /\ noteTitle = NoInstallationTitle

\* The order of main's steps.
Order ==
    { << "main", "language" >>, << "language", "version" >>,
      << "version", "language" >>, << "version", "languageFormDone" >>,
      << "languageFormDone", "editor" >>, << "languageFormDone", "spinner" >>,
      << "editor", "spinner" >>, << "spinner", "summary" >>,
      << "summary", "done" >>,
      << "language", "exited" >>, << "version", "exited" >>,
      << "editor", "exited" >> }

\* C5: the steps run in order; the process exits with 1 exactly when a form
\* returned an error, and then nothing runs afterwards and no summary is
\* printed; otherwise the summary is printed once, with exit code 0.
C5_StepsInOrderAndExitCode ==
    /\ [][pc' # pc => << pc, pc' >> \in Order]_vars
    /\ [][exitCode = -1]_vars
    /\ [](err \in FormErrors <=> exitCode = 1)
    /\ [](exitCode = 1 => (pc = "exited" /\ Boxes = 0))
    /\ [](exitCode = 0 <=> pc = "done")
    /\ [](Boxes = (IF pc = "done" THEN 1 ELSE 0))

\* C5's case: the editor form returned an error and the process has exited.
C5_Witness ==
    /\ pc = "exited"
    /\ exitCode = 1
    /\ editorOptions # << >>
    /\ Boxes = 0

\* C6: the version of a Python probe is the second white-space separated
\* token of the trimmed output, and the trimmed output itself when it has
\* fewer than two tokens.
C6_PythonSecondToken ==
    (/\ result.fn = "getLanguageVersion"
     /\ IsLabel(result.language, Python)
     /\ result.value.err = NoError) =>
        LET out    == TrimSpace(result.env.out)
            tokens == Fields(out)
        IN  result.value.version = IF Len(tokens) >= 2 THEN tokens[2] ELSE out

\* C7: getLanguageEditors returns the three base editors in their order, then
\* the one editor of Python, Go, JavaScript or Java, and nothing more for
\* Rust or a language it does not know.
C7_BaseEditorsThenSpecialized ==
    result.fn = "getLanguageEditors" =>
        LET values == [i \in 1..Len(result.value) |-> result.value[i].value]
            own    == CASE IsLabel(result.language, Python)     -> << <<"P","y","C","h","a","r","m">> >>
                        [] IsLabel(result.language, Go)         -> << <<"G","o","L","a","n","d">> >>
                        [] IsLabel(result.language, JavaScript) -> << <<"W","e","b","S","t","o","r","m">> >>
                        [] IsLabel(result.language, Java)       -> << <<"I","n","t","e","l","l","i","J"," ","I","D","E","A">> >>
                        [] OTHER                                -> << >>
        IN  values = << <<"V","S"," ","C","o","d","e">>, <<"N","e","o","v","i","m">>, <<"S","u","b","l","i","m","e"," ","T","e","x","t">> >> \o own

\* C7's case: a menu label with its suffix has got its fourth editor.
C7_Witness ==
    /\ result.fn = "getLanguageEditors"
    /\ result.language = LanguageOptions[3]
    /\ Len(result.value) = 4

\* C8: for a supported language, with or without suffix, the versions are
\* not empty, each more recent than the next, and no label occurs twice; for
\* any other language there are none.
C8_VersionsDescending ==
    result.fn = "getAvailableVersions" =>
        LET vs == result.value
        IN  IF Supported(result.language)
            THEN /\ Len(vs) > 0
                 /\ \A i \in 1..(Len(vs) - 1) :
                        Newer(VersionNumber(vs[i]), VersionNumber(vs[i + 1]))
                 /\ \A i, j \in 1..Len(vs) : i # j => vs[i] # vs[j]
            ELSE vs = << >>

\* C8's case: the versions of a menu label with its suffix.
C8_Witness ==
    /\ result.fn = "getAvailableVersions"
    /\ result.language = LanguageOptions[1]
    /\ Len(result.value) = 4

\* C9: when the summary has been printed, Type and Version are not empty and
\* Version is one of the versions of the finally selected language.
C9_SummaryVersionOfSelectedLanguage ==
    pc = "done" =>
        /\ setup.Language.Type # Empty
        /\ setup.Language.Version # Empty
        /\ \E i \in 1..Len(getAvailableVersions(setup.Language.Type)) :
              getAvailableVersions(setup.Language.Type)[i] = setup.Language.Version

\* C9's case: the summary of a session in which the language selection
\* changed after a version had been set.
C9_Witness == pc = "done" /\ reselected /\ Boxes = 1

\* C10: a probe that fails leaves CurrentVer and Path as they were; one that
\* succeeds writes both, the probe's version and its path; no probe changes
\* Type, Version or Editors.
C10_ProbeFrame ==
    [][IsProbeStep =>
          /\ probe'.err # NoError =>
                /\ setup'.Language.CurrentVer = setup.Language.CurrentVer
                /\ setup'.Language.Path = setup.Language.Path
          /\ probe'.err = NoError =>
                /\ setup'.Language.CurrentVer = probe'.ver
                /\ setup'.Language.Path = probe'.path
                /\ setup'.Language.Path # Empty
          /\ setup'.Language.Type = setup.Language.Type
          /\ setup'.Language.Version = setup.Language.Version
          /\ setup'.Language.Editors = setup.Language.Editors]_vars

\* C10's case: a failed probe has left the version and path of an earlier one.
C10_Witness ==
    /\ probe.err # NoError
    /\ setup.Language.CurrentVer # Empty
    /\ setup.Language.Path # Empty

=============================================================================
